---- MODULE Spec2Model ----
(***************************************************************************)
(* Model of pkg/cosign/keys.go: generation, import, encryption at rest and *)
(* loading of cosign signing key pairs.                                    *)
(*                                                                         *)
(* Byte strings are modelled structurally: a file is a PEM envelope        *)
(* (framed, type, body); a body is either a plain DER encoding or a        *)
(* passphrase-sealed box around one; a DER encoding names its syntax       *)
(* (PKCS1, SEC1, PKCS8, PKIX) and the key material it carries.  Every      *)
(* encoder wraps and every decoder checks the syntax it expects, so a      *)
(* decoder applied to the wrong layer fails as it does in Go.              *)
(***************************************************************************)
EXTENDS Integers, Sequences, FiniteSets, TLC

VARIABLES stored, last

vars == <<stored, last>>

(* ------------------------------ bounds -------------------------------- *)
\* distinct private scalars per algorithm
NumKeys == 2
\* distinct passphrases the callback can return / the caller can supply
NumPasses == 2

(* ----------------------------- constants ------------------------------ *)
PrivateKeyPemType == "ENCRYPTED COSIGN PRIVATE KEY"
RSAPrivateKeyPemType == "RSA PRIVATE KEY"
ECPrivateKeyPemType == "EC PRIVATE KEY"
PublicKeyPemType == "PUBLIC KEY"

(* ------------------------------ errors -------------------------------- *)
\* An error is the chain of its messages, outermost first; nil is empty.
NilErr == << >>

New(msg) == <<msg>>

\* github.com/pkg/errors.Wrap: wrapping a nil error yields nil.
Wrap(err, msg) == IF err = NilErr THEN NilErr ELSE <<msg>> \o err

(* ---------------------------- key material ---------------------------- *)
KeyIds == 1..NumKeys
Passes == 1..NumPasses

\* the public value determined by private scalar d (injective on KeyIds)
PubPoint(d) == (d * 7) % 31

NoKey == [alg |-> "none", d |-> 0, q |-> 0]

\* a private key of algorithm alg with scalar d; it embeds its public part
PrivKey(alg, d) == [alg |-> alg, d |-> d, q |-> PubPoint(d)]

\* pk.Public() / &priv.PublicKey
Public(priv) == [alg |-> priv.alg, d |-> 0, q |-> priv.q]

(* ------------------------------ encodings ----------------------------- *)
NoDer == [fmt |-> "garbage", key |-> NoKey]
NoBody == [boxed |-> FALSE, der |-> NoDer, pass |-> 0, intact |-> TRUE]
NoBytes == [framed |-> FALSE, type |-> "", body |-> NoBody]

Plain(der) == [boxed |-> FALSE, der |-> der, pass |-> 0, intact |-> TRUE]

\* x509.MarshalPKCS8PrivateKey
MarshalPKCS8PrivateKey(priv) ==
    IF priv.alg \in {"RSA", "EC", "ED25519"} /\ priv.d # 0
    THEN [der |-> [fmt |-> "PKCS8", key |-> priv], err |-> NilErr]
    ELSE [der |-> NoDer, err |-> New("x509: unknown key type while marshaling PKCS#8")]

\* x509.ParsePKCS8PrivateKey
ParsePKCS8PrivateKey(der) ==
    IF der.fmt = "PKCS8" /\ der.key.d # 0
    THEN [key |-> der.key, err |-> NilErr]
    ELSE [key |-> NoKey, err |-> New("x509: failed to parse private key")]

\* x509.ParsePKCS1PrivateKey, applied to the bytes of a PEM block
ParsePKCS1PrivateKey(body) ==
    IF ~body.boxed /\ body.der.fmt = "PKCS1" /\ body.der.key.alg = "RSA"
    THEN [key |-> body.der.key, err |-> NilErr]
    ELSE [key |-> NoKey, err |-> New("asn1: structure error")]

\* x509.ParseECPrivateKey, applied to the bytes of a PEM block
ParseECPrivateKey(body) ==
    IF ~body.boxed /\ body.der.fmt = "SEC1" /\ body.der.key.alg = "EC"
    THEN [key |-> body.der.key, err |-> NilErr]
    ELSE [key |-> NoKey, err |-> New("x509: failed to parse EC private key")]

\* pem.EncodeToMemory(&pem.Block{Type, Bytes})
pemEncodeToMemory(type, body) == [framed |-> TRUE, type |-> type, body |-> body]

\* pem.Decode: the first block, or nil
pemDecode(bytes) ==
    IF bytes.framed
    THEN [ok |-> TRUE, Type |-> bytes.type, Bytes |-> bytes.body]
    ELSE [ok |-> FALSE, Type |-> "", Bytes |-> NoBody]

\* encrypted.Encrypt: scrypt + secretbox under the passphrase
Encrypt(der, pass) ==
    [ct |-> [boxed |-> TRUE, der |-> der, pass |-> pass, intact |-> TRUE],
     err |-> NilErr]

\* encrypted.Decrypt: opens only an intact box sealed under the same passphrase
Decrypt(body, pass) ==
    IF body.boxed /\ body.intact /\ body.pass = pass
    THEN [plain |-> body.der, err |-> NilErr]
    ELSE [plain |-> NoDer, err |-> New("encrypted: decryption failed")]

\* cryptoutils.MarshalPublicKeyToPEM
MarshalPublicKeyToPEM(pub) ==
    IF pub.alg \in {"RSA", "EC", "ED25519"}
    THEN [pem |-> pemEncodeToMemory(PublicKeyPemType,
                                    Plain([fmt |-> "PKIX", key |-> pub])),
          err |-> NilErr]
    ELSE [pem |-> NoBytes, err |-> New("x509: unsupported public key type")]

\* cryptoutils.UnmarshalPEMToPublicKey
UnmarshalPEMToPublicKey(bytes) ==
    LET p == pemDecode(bytes) IN
    IF p.ok /\ p.Type = PublicKeyPemType /\ ~p.Bytes.boxed /\ p.Bytes.der.fmt = "PKIX"
    THEN [key |-> p.Bytes.der.key, err |-> NilErr]
    ELSE [key |-> NoKey, err |-> New("PEM decoding failed")]

(* --------------------------- signer/verifier -------------------------- *)
NoSigner == [kind |-> "nil", priv |-> NoKey, hash |-> "none"]

\* signature.LoadECDSASignerVerifier(priv, crypto.SHA256)
LoadECDSASignerVerifier(priv, hash) == [kind |-> "ECDSA", priv |-> priv, hash |-> hash]

\* signature.LoadRSAPKCS1v15SignerVerifier(priv, crypto.SHA256)
LoadRSAPKCS1v15SignerVerifier(priv, hash) ==
    [kind |-> "RSAPKCS1v15", priv |-> priv, hash |-> hash]

\* SignMessage: a signature names the algorithm, the signed message and the
\* public value of the key that made it
SignMessage(sv, msg) == [alg |-> sv.priv.alg, q |-> PubPoint(sv.priv.d), msg |-> msg]

\* VerifySignature against a public key
VerifySignature(pub, sig, msg) == sig.alg = pub.alg /\ sig.q = pub.q /\ sig.msg = msg

(* ------------------------------ results ------------------------------- *)
\* type Keys struct; NoKeys stands for a nil *Keys
NoKeys == [PrivateBytes |-> NoBytes, PublicBytes |-> NoBytes, password |-> 0]

\* What one call returned and did: the returned bundle / signer / error,
\* whether it panicked instead of returning, the library calls it made in
\* order, the arguments it passed to the passphrase callback in order, and
\* (Loader) the stages it completed in order.
Blank ==
    [keys |-> NoKeys, sv |-> NoSigner, err |-> NilErr, panicked |-> FALSE,
     calls |-> << >>, pfCalls |-> << >>, stages |-> << >>]

\* type PassFunc func(bool) ([]byte, error): what the callback answers
PassFuncs ==
    {[pass |-> p, err |-> NilErr] : p \in Passes}
        \cup {[pass |-> 0, err |-> New("user cancelled")]}

\* type Key struct {private, public}
Key(private, public) == [private |-> private, public |-> public]

(* --------------------- faulty variants of the Encoder ----------------- *)
\* asks for the passphrase in "decrypt" mode: pf(false)
MarshallKeyPair_PfFalse(keypair, pf) ==
    LET x == MarshalPKCS8PrivateKey(keypair.private)
        c == <<"x509.MarshalPKCS8PrivateKey">>
    IN
    IF x.err # NilErr
    THEN [Blank EXCEPT !.err = Wrap(x.err, "x509 encoding private key"), !.calls = c]
    ELSE IF pf.err # NilErr
    THEN [Blank EXCEPT !.err = pf.err, !.calls = c, !.pfCalls = <<FALSE>>]
    ELSE [Blank EXCEPT
            !.keys = [PrivateBytes |->
                          pemEncodeToMemory(PrivateKeyPemType, Encrypt(x.der, pf.pass).ct),
                      PublicBytes |-> MarshalPublicKeyToPEM(keypair.public).pem,
                      password |-> pf.pass],
            !.calls = c \o <<"encrypted.Encrypt", "pem.EncodeToMemory",
                             "cryptoutils.MarshalPublicKeyToPEM">>,
            !.pfCalls = <<FALSE>>]

\* wraps the callback's error instead of returning it as it is
MarshallKeyPair_WrapPfErr(keypair, pf) ==
    LET x == MarshalPKCS8PrivateKey(keypair.private)
        c == <<"x509.MarshalPKCS8PrivateKey">>
    IN
    IF x.err # NilErr
    THEN [Blank EXCEPT !.err = Wrap(x.err, "x509 encoding private key"), !.calls = c]
    ELSE IF pf.err # NilErr
    THEN [Blank EXCEPT !.err = Wrap(pf.err, "reading password"),
                       !.calls = c, !.pfCalls = <<TRUE>>]
    ELSE [Blank EXCEPT
            !.keys = [PrivateBytes |->
                          pemEncodeToMemory(PrivateKeyPemType, Encrypt(x.der, pf.pass).ct),
                      PublicBytes |-> MarshalPublicKeyToPEM(keypair.public).pem,
                      password |-> pf.pass],
            !.calls = c \o <<"encrypted.Encrypt", "pem.EncodeToMemory",
                             "cryptoutils.MarshalPublicKeyToPEM">>,
            !.pfCalls = <<TRUE>>]

(* ------------------------------ Encoder ------------------------------- *)
MarshallKeyPair(keypair, pf) ==
    LET x == MarshalPKCS8PrivateKey(keypair.private)
        c1 == <<"x509.MarshalPKCS8PrivateKey">>
    IN
    IF x.err # NilErr
    THEN [Blank EXCEPT !.err = Wrap(x.err, "x509 encoding private key"), !.calls = c1]
    ELSE IF pf.err # NilErr
    THEN [Blank EXCEPT !.err = pf.err, !.calls = c1, !.pfCalls = <<TRUE>>]
    ELSE
    LET enc == Encrypt(x.der, pf.pass)
        c2 == c1 \o <<"encrypted.Encrypt">>
    IN
    IF enc.err # NilErr
    THEN [Blank EXCEPT !.err = enc.err, !.calls = c2, !.pfCalls = <<TRUE>>]
    ELSE
    LET privBytes == pemEncodeToMemory(PrivateKeyPemType, enc.ct)
        pub == MarshalPublicKeyToPEM(keypair.public)
        c3 == c2 \o <<"pem.EncodeToMemory", "cryptoutils.MarshalPublicKeyToPEM">>
    IN
    IF pub.err # NilErr
    THEN [Blank EXCEPT !.err = pub.err, !.calls = c3, !.pfCalls = <<TRUE>>]
    ELSE [Blank EXCEPT
            !.keys = [PrivateBytes |-> privBytes, PublicBytes |-> pub.pem,
                      password |-> pf.pass],
            !.calls = c3, !.pfCalls = <<TRUE>>]

(* -------------------- faulty variant of the Generator ----------------- *)
\* generates a second key for the public half instead of using priv.PublicKey
GenerateKeyPair_SecondKey(pf, gen) ==
    IF gen.err # NilErr
    THEN [Blank EXCEPT !.err = gen.err, !.calls = <<"GeneratePrivateKey">>]
    ELSE LET other == PrivKey("EC", (gen.key.d % NumKeys) + 1)
             out == MarshallKeyPair(Key(gen.key, Public(other)), pf)
         IN [out EXCEPT !.calls = <<"GeneratePrivateKey", "GeneratePrivateKey">> \o out.calls]

(* ------------------------------ Generator ----------------------------- *)
\* GeneratePrivateKey: ecdsa.GenerateKey(elliptic.P256(), rand.Reader); the
\* random source either fails or yields some scalar
GeneratePrivateKeyResults ==
    {[key |-> PrivKey("EC", d), err |-> NilErr] : d \in KeyIds}
        \cup {[key |-> NoKey, err |-> New("rand: read failed")]}

GenerateKeyPair(pf, gen) ==
    LET c0 == <<"GeneratePrivateKey">> IN
    IF gen.err # NilErr
    THEN [Blank EXCEPT !.err = gen.err, !.calls = c0]
    ELSE
    LET priv == gen.key
        x == MarshalPKCS8PrivateKey(priv)
        c1 == c0 \o <<"x509.MarshalPKCS8PrivateKey">>
    IN
    IF x.err # NilErr
    THEN [Blank EXCEPT !.err = Wrap(x.err, "x509 encoding private key"), !.calls = c1]
    ELSE IF pf.err # NilErr
    THEN [Blank EXCEPT !.err = pf.err, !.calls = c1, !.pfCalls = <<TRUE>>]
    ELSE
    LET enc == Encrypt(x.der, pf.pass)
        c2 == c1 \o <<"encrypted.Encrypt">>
    IN
    IF enc.err # NilErr
    THEN [Blank EXCEPT !.err = enc.err, !.calls = c2, !.pfCalls = <<TRUE>>]
    ELSE
    LET privBytes == pemEncodeToMemory(PrivateKeyPemType, enc.ct)
        pub == MarshalPublicKeyToPEM(Public(priv))
        c3 == c2 \o <<"pem.EncodeToMemory", "cryptoutils.MarshalPublicKeyToPEM">>
    IN
    IF pub.err # NilErr
    THEN [Blank EXCEPT !.err = pub.err, !.calls = c3, !.pfCalls = <<TRUE>>]
    ELSE [Blank EXCEPT
            !.keys = [PrivateBytes |-> privBytes, PublicBytes |-> pub.pem,
                      password |-> pf.pass],
            !.calls = c3, !.pfCalls = <<TRUE>>]

(* ------------------------------ Importer ------------------------------ *)
\* prefix the calls made before delegating to another function
After(prefix, out) == [out EXCEPT !.calls = prefix \o out.calls]

\* faulty variant: ignores which of the two tags the block carries and tries
\* the RSA parser, then the EC parser
ImportKeyPair_TryBoth(file, pf) ==
    LET p == pemDecode(file.kb)
        c1 == <<"os.ReadFile", "pem.Decode">>
        rsa == ParsePKCS1PrivateKey(p.Bytes)
        ec == ParseECPrivateKey(p.Bytes)
    IN
    IF file.err # NilErr
    THEN [Blank EXCEPT !.err = file.err, !.calls = <<"os.ReadFile">>]
    ELSE IF ~p.ok
    THEN [Blank EXCEPT !.err = New("invalid pem block"), !.calls = c1]
    ELSE IF p.Type # RSAPrivateKeyPemType /\ p.Type # ECPrivateKeyPemType
    THEN [Blank EXCEPT !.err = <<"unsupported pem type", p.Type>>, !.calls = c1]
    ELSE IF rsa.err = NilErr
    THEN After(c1 \o <<"x509.ParsePKCS1PrivateKey">>,
               MarshallKeyPair(Key(rsa.key, Public(rsa.key)), pf))
    ELSE IF ec.err = NilErr
    THEN After(c1 \o <<"x509.ParsePKCS1PrivateKey", "x509.ParseECPrivateKey">>,
               MarshallKeyPair(Key(ec.key, Public(ec.key)), pf))
    ELSE [Blank EXCEPT !.err = New("parsing error"),
                       !.calls = c1 \o <<"x509.ParsePKCS1PrivateKey",
                                         "x509.ParseECPrivateKey">>]

\* file is what os.ReadFile(filepath.Clean(keyPath)) returned: [kb, err]
ImportKeyPair(file, pf) ==
    LET c0 == <<"os.ReadFile">> IN
    IF file.err # NilErr
    THEN [Blank EXCEPT !.err = file.err, !.calls = c0]
    ELSE
    LET p == pemDecode(file.kb)
        c1 == c0 \o <<"pem.Decode">>
    IN
    IF ~p.ok
    THEN [Blank EXCEPT !.err = New("invalid pem block"), !.calls = c1]
    ELSE IF p.Type # RSAPrivateKeyPemType /\ p.Type # ECPrivateKeyPemType
    THEN [Blank EXCEPT !.err = <<"unsupported pem type", p.Type>>, !.calls = c1]
    ELSE IF p.Type = RSAPrivateKeyPemType
    THEN LET pk == ParsePKCS1PrivateKey(p.Bytes)
             c2 == c1 \o <<"x509.ParsePKCS1PrivateKey">>
         IN
         IF pk.err # NilErr
         THEN [Blank EXCEPT !.err = New("parsing error"), !.calls = c2]
         ELSE After(c2, MarshallKeyPair(Key(pk.key, Public(pk.key)), pf))
    ELSE LET pk == ParseECPrivateKey(p.Bytes)
             c2 == c1 \o <<"x509.ParseECPrivateKey">>
         IN
         IF pk.err # NilErr
         THEN [Blank EXCEPT !.err = New("parsing error"), !.calls = c2]
         ELSE After(c2, MarshallKeyPair(Key(pk.key, Public(pk.key)), pf))

(* ------------------------------- Loader ------------------------------- *)
\* The Loader's stages, in the order the design names them.
StageOrder ==
    <<"RawBytes", "FramingValidated", "Decrypted", "Parsed",
      "AlgorithmResolved", "SignerReady">>

\* crypto.SHA256, registered by the blank import of crypto/sha256
SHA256 == "SHA256"

\* faulty variant: drops the error of encrypted.Decrypt and parses whatever
\* it returned
LoadECDSAPrivateKey_DropDecryptErr(key, pass) ==
    LET p == pemDecode(key)
        x == Decrypt(p.Bytes, pass)
        pk == ParsePKCS8PrivateKey(x.plain)
        c3 == <<"pem.Decode", "encrypted.Decrypt", "x509.ParsePKCS8PrivateKey">>
        s2 == <<"RawBytes", "FramingValidated", "Decrypted">>
    IN
    IF ~p.ok
    THEN [Blank EXCEPT !.err = New("invalid pem block"),
                       !.calls = <<"pem.Decode">>, !.stages = <<"RawBytes">>]
    ELSE IF p.Type # PrivateKeyPemType
    THEN [Blank EXCEPT !.err = <<"unsupported pem type", p.Type>>,
                       !.calls = <<"pem.Decode">>, !.stages = <<"RawBytes">>]
    ELSE IF pk.err # NilErr
    THEN [Blank EXCEPT !.err = Wrap(pk.err, "parsing private key"),
                       !.calls = c3, !.stages = s2]
    ELSE IF pk.key.alg # "EC"
    THEN [Blank EXCEPT !.err = New("invalid private key"),
                       !.calls = c3, !.stages = s2 \o <<"Parsed">>]
    ELSE [Blank EXCEPT
            !.sv = LoadECDSASignerVerifier(pk.key, SHA256),
            !.calls = c3 \o <<"signature.LoadECDSASignerVerifier">>,
            !.stages = s2 \o <<"Parsed", "AlgorithmResolved", "SignerReady">>]

LoadECDSAPrivateKey(key, pass) ==
    LET p == pemDecode(key)
        c1 == <<"pem.Decode">>
        s0 == <<"RawBytes">>
    IN
    IF ~p.ok
    THEN [Blank EXCEPT !.err = New("invalid pem block"), !.calls = c1, !.stages = s0]
    ELSE IF p.Type # PrivateKeyPemType
    THEN [Blank EXCEPT !.err = <<"unsupported pem type", p.Type>>,
                       !.calls = c1, !.stages = s0]
    ELSE
    LET x == Decrypt(p.Bytes, pass)
        c2 == c1 \o <<"encrypted.Decrypt">>
        s1 == s0 \o <<"FramingValidated">>
    IN
    IF x.err # NilErr
    THEN [Blank EXCEPT !.err = Wrap(x.err, "decrypt"), !.calls = c2, !.stages = s1]
    ELSE
    LET pk == ParsePKCS8PrivateKey(x.plain)
        c3 == c2 \o <<"x509.ParsePKCS8PrivateKey">>
        s2 == s1 \o <<"Decrypted">>
    IN
    IF pk.err # NilErr
    THEN [Blank EXCEPT !.err = Wrap(pk.err, "parsing private key"),
                       !.calls = c3, !.stages = s2]
    ELSE
    LET s3 == s2 \o <<"Parsed">> IN
    \* epk, ok := pk.(*ecdsa.PrivateKey)
    IF pk.key.alg # "EC"
    THEN [Blank EXCEPT !.err = New("invalid private key"), !.calls = c3, !.stages = s3]
    ELSE [Blank EXCEPT
            !.sv = LoadECDSASignerVerifier(pk.key, SHA256),
            !.calls = c3 \o <<"signature.LoadECDSASignerVerifier">>,
            !.stages = s3 \o <<"AlgorithmResolved", "SignerReady">>]

\* faulty variant: does not look at the type tag of the PEM block
LoadRSAPrivateKey_AnyTag(key, pass) ==
    LET p == pemDecode(key)
        x == Decrypt(p.Bytes, pass)
        pk == ParsePKCS8PrivateKey(x.plain)
        c2 == <<"pem.Decode", "encrypted.Decrypt">>
        s1 == <<"RawBytes", "FramingValidated">>
    IN
    IF ~p.ok
    THEN [Blank EXCEPT !.err = New("invalid pem block"),
                       !.calls = <<"pem.Decode">>, !.stages = <<"RawBytes">>]
    ELSE IF x.err # NilErr
    THEN [Blank EXCEPT !.err = Wrap(x.err, "decrypt"), !.calls = c2, !.stages = s1]
    ELSE IF pk.err # NilErr
    THEN [Blank EXCEPT !.err = Wrap(pk.err, "parsing private key"),
                       !.calls = c2 \o <<"x509.ParsePKCS8PrivateKey">>,
                       !.stages = s1 \o <<"Decrypted">>]
    ELSE IF pk.key.alg # "RSA"
    THEN [Blank EXCEPT !.panicked = TRUE,
                       !.calls = c2 \o <<"x509.ParsePKCS8PrivateKey">>,
                       !.stages = s1 \o <<"Decrypted", "Parsed">>]
    ELSE [Blank EXCEPT
            !.sv = LoadRSAPKCS1v15SignerVerifier(pk.key, SHA256),
            !.calls = c2 \o <<"x509.ParsePKCS8PrivateKey",
                              "signature.LoadRSAPKCS1v15SignerVerifier">>,
            !.stages = s1 \o <<"Decrypted", "Parsed", "AlgorithmResolved",
                               "SignerReady">>]

LoadRSAPrivateKey(key, pass) ==
    LET p == pemDecode(key)
        c1 == <<"pem.Decode">>
        s0 == <<"RawBytes">>
    IN
    IF ~p.ok
    THEN [Blank EXCEPT !.err = New("invalid pem block"), !.calls = c1, !.stages = s0]
    ELSE IF p.Type # PrivateKeyPemType
    THEN [Blank EXCEPT !.err = <<"unsupported pem type", p.Type>>,
                       !.calls = c1, !.stages = s0]
    ELSE
    LET x == Decrypt(p.Bytes, pass)
        c2 == c1 \o <<"encrypted.Decrypt">>
        s1 == s0 \o <<"FramingValidated">>
    IN
    IF x.err # NilErr
    THEN [Blank EXCEPT !.err = Wrap(x.err, "decrypt"), !.calls = c2, !.stages = s1]
    ELSE
    LET pk == ParsePKCS8PrivateKey(x.plain)
        c3 == c2 \o <<"x509.ParsePKCS8PrivateKey">>
        s2 == s1 \o <<"Decrypted">>
    IN
    IF pk.err # NilErr
    THEN [Blank EXCEPT !.err = Wrap(pk.err, "parsing private key"),
                       !.calls = c3, !.stages = s2]
    ELSE
    LET s3 == s2 \o <<"Parsed">> IN
    \* pk.(*rsa.PrivateKey): a single-value type assertion panics on any
    \* other dynamic type
    IF pk.key.alg # "RSA"
    THEN [Blank EXCEPT !.panicked = TRUE, !.calls = c3, !.stages = s3]
    ELSE [Blank EXCEPT
            !.sv = LoadRSAPKCS1v15SignerVerifier(pk.key, SHA256),
            !.calls = c3 \o <<"signature.LoadRSAPKCS1v15SignerVerifier">>,
            !.stages = s3 \o <<"AlgorithmResolved", "SignerReady">>]

\* the calls and stages of a delegate follow those already made
Delegate(calls, stages, out) ==
    [out EXCEPT !.calls = calls \o out.calls, !.stages = stages \o out.stages]

\* faulty variant: no dispatch on the key type, every key is taken for ECDSA
LoadPrivateKey_ECDSAOnly(key, pass) == LoadECDSAPrivateKey(key, pass)

LoadPrivateKey(key, pass) ==
    LET p == pemDecode(key)
        c1 == <<"pem.Decode">>
        s0 == <<"RawBytes">>
    IN
    IF ~p.ok
    THEN [Blank EXCEPT !.err = New("invalid pem block"), !.calls = c1, !.stages = s0]
    ELSE IF p.Type # PrivateKeyPemType
    THEN [Blank EXCEPT !.err = <<"unsupported pem type", p.Type>>,
                       !.calls = c1, !.stages = s0]
    ELSE
    LET x == Decrypt(p.Bytes, pass)
        c2 == c1 \o <<"encrypted.Decrypt">>
        s1 == s0 \o <<"FramingValidated">>
    IN
    IF x.err # NilErr
    THEN [Blank EXCEPT !.err = Wrap(x.err, "decrypt"), !.calls = c2, !.stages = s1]
    ELSE
    LET pk == ParsePKCS8PrivateKey(x.plain)
        c3 == c2 \o <<"x509.ParsePKCS8PrivateKey">>
        s2 == s1 \o <<"Decrypted">>
    IN
    IF pk.err # NilErr
    THEN [Blank EXCEPT !.err = Wrap(pk.err, "parsing private key"),
                       !.calls = c3, !.stages = s2]
    ELSE
    LET s3 == s2 \o <<"Parsed">> IN
    \* switch pk.(type)
    IF pk.key.alg = "RSA"
    THEN Delegate(c3, s3 \o <<"AlgorithmResolved">>, LoadRSAPrivateKey(key, pass))
    ELSE IF pk.key.alg = "EC"
    THEN Delegate(c3, s3 \o <<"AlgorithmResolved">>, LoadECDSAPrivateKey(key, pass))
    \* no case matched: err is the nil error of the successful parse
    ELSE [Blank EXCEPT !.err = Wrap(pk.err, "loading private key"),
                       !.calls = c3, !.stages = s3]

(* ------------------------------- inputs ------------------------------- *)
\* a file that was encrypted and written by the caller, with a byte of its
\* ciphertext flipped since
Tamper(bytes) == [bytes EXCEPT !.body.intact = FALSE]

\* the files the caller persisted, intact or tampered with
StoredFiles ==
    IF stored.keys = NoKeys THEN {}
    ELSE {stored.keys.PrivateBytes, stored.keys.PublicBytes,
          Tamper(stored.keys.PrivateBytes)}

\* private keys in the two legacy encodings, and bytes that are no key
LegacyDers ==
    {[fmt |-> "PKCS1", key |-> PrivKey("RSA", d)] : d \in KeyIds}
        \cup {[fmt |-> "SEC1", key |-> PrivKey("EC", d)] : d \in KeyIds}
        \cup {NoDer}

\* unencrypted PEM files: every body under the two legacy tags and under the
\* PKCS#8 tag; and a file that holds no PEM block
PlainFiles ==
    {pemEncodeToMemory(t, Plain(der)) :
        t \in {RSAPrivateKeyPemType, ECPrivateKeyPemType, "PRIVATE KEY"},
        der \in LegacyDers}
        \cup {NoBytes}

\* files under the cosign tag written by other tools: a PKCS#8 Ed25519 key or
\* bytes that are no key, sealed under some passphrase; and an unsealed body
ForeignSealedFiles ==
    {pemEncodeToMemory(PrivateKeyPemType, Encrypt(der, p).ct) :
        der \in {[fmt |-> "PKCS8", key |-> PrivKey("ED25519", NumKeys)], NoDer},
        p \in Passes}
        \cup {pemEncodeToMemory(PrivateKeyPemType, Plain(NoDer))}

\* what the Loader may be handed
LoaderFiles ==
    StoredFiles \cup ForeignSealedFiles
        \cup {f \in PlainFiles : f.body.der.key.d \in {0, NumKeys}}

\* what os.ReadFile may return to the Importer
ReadFileResults ==
    {[kb |-> f, err |-> NilErr] :
        f \in PlainFiles \cup (StoredFiles \ {NoBytes})}
        \cup {[kb |-> NoBytes, err |-> New("open: no such file or directory")]}

\* key pairs code of this package can hand to the Encoder directly
KeyPairs == {Key(PrivKey(alg, d), Public(PrivKey(alg, d))) :
                alg \in {"EC", "ED25519"}, d \in KeyIds}

NoPassFunc == [pass |-> 0, err |-> NilErr]
NoFile == [kb |-> NoBytes, err |-> NilErr]

(* ------------------------------- state -------------------------------- *)
\* stored: the key bundle the caller last wrote to storage, with the function
\*         that returned it (a later bundle overwrites it)
\* last:   the most recent call: the function, its arguments and outcome
Call(op, key, pass, pf, file, out) ==
    [op |-> op, key |-> key, pass |-> pass, pf |-> pf, file |-> file, out |-> out]

NothingStored == [keys |-> NoKeys, via |-> "none"]

Persist(op, out) ==
    IF out.keys # NoKeys THEN [keys |-> out.keys, via |-> op] ELSE stored

Init ==
    /\ stored = NothingStored
    /\ last = Call("none", NoBytes, 0, NoPassFunc, NoFile, Blank)

Generate ==
    \E pf \in PassFuncs, gen \in GeneratePrivateKeyResults :
        LET out == GenerateKeyPair(pf, gen) IN
        /\ last' = Call("GenerateKeyPair", NoBytes, 0, pf, NoFile, out)
        /\ stored' = Persist("GenerateKeyPair", out)

Import ==
    \E file \in ReadFileResults, pf \in PassFuncs :
        LET out == ImportKeyPair(file, pf) IN
        /\ last' = Call("ImportKeyPair", NoBytes, 0, pf, file, out)
        /\ stored' = Persist("ImportKeyPair", out)

Marshall ==
    \E keypair \in KeyPairs, pf \in PassFuncs :
        LET out == MarshallKeyPair(keypair, pf) IN
        /\ last' = Call("MarshallKeyPair", NoBytes, 0, pf, NoFile, out)
        /\ stored' = Persist("MarshallKeyPair", out)

Load ==
    \E key \in LoaderFiles, pass \in Passes :
        /\ last' = Call("LoadPrivateKey", key, pass, NoPassFunc, NoFile,
                        LoadPrivateKey(key, pass))
        /\ UNCHANGED stored

LoadECDSA ==
    \E key \in LoaderFiles, pass \in Passes :
        /\ last' = Call("LoadECDSAPrivateKey", key, pass, NoPassFunc, NoFile,
                        LoadECDSAPrivateKey(key, pass))
        /\ UNCHANGED stored

LoadRSA ==
    \E key \in LoaderFiles, pass \in Passes :
        /\ last' = Call("LoadRSAPrivateKey", key, pass, NoPassFunc, NoFile,
                        LoadRSAPrivateKey(key, pass))
        /\ UNCHANGED stored

Next == Generate \/ Import \/ Marshall \/ Load \/ LoadECDSA \/ LoadRSA

Spec == Init /\ [][Next]_vars

(* ============================== properties ============================ *)
Loaders == {"LoadPrivateKey", "LoadECDSAPrivateKey", "LoadRSAPrivateKey"}

\* the call made the named library call
Called(out, name) == \E i \in 1..Len(out.calls) : out.calls[i] = name

\* the last call was a Loader call on the stored private-key file
LoadedStored(op) == last.op = op /\ stored.keys # NoKeys
                        /\ last.key = stored.keys.PrivateBytes

\* the private key sealed in a bundle's PrivateBytes
SealedKey(keys) == keys.PrivateBytes.body.der.key

\* the public key that belongs to a private key
PublicOf(priv) == [alg |-> priv.alg, d |-> 0, q |-> PubPoint(priv.d)]

Messages == {"hello", "world"}

(* C1: round trip.  When LoadPrivateKey is called on the PrivateBytes of a *)
(* bundle returned by GenerateKeyPair or ImportKeyPair, with the           *)
(* passphrase the callback returned for that bundle, it returns no error   *)
(* and a signer for exactly the private key that was sealed, and every     *)
(* signature of that signer verifies against the key in PublicBytes.       *)
C1_RoundTrip ==
    (/\ LoadedStored("LoadPrivateKey")
     /\ stored.via \in {"GenerateKeyPair", "ImportKeyPair"}
     /\ last.pass = stored.keys.password)
    => LET pub == UnmarshalPEMToPublicKey(stored.keys.PublicBytes) IN
       /\ last.out.err = NilErr
       /\ ~last.out.panicked
       /\ last.out.sv # NoSigner
       /\ last.out.sv.priv = SealedKey(stored.keys)
       /\ pub.err = NilErr
       /\ \A msg \in Messages :
            VerifySignature(pub.key, SignMessage(last.out.sv, msg), msg)

C1_Witness ==
    /\ LoadedStored("LoadPrivateKey")
    /\ stored.via = "ImportKeyPair"
    /\ last.pass = stored.keys.password
    /\ SealedKey(stored.keys).alg = "RSA"
    /\ last.out.sv.kind = "RSAPKCS1v15"

(* C2: algorithm mismatch on the narrow entry points.  LoadECDSAPrivateKey *)
(* with the right passphrase on a bundle whose key is RSA, and             *)
(* LoadRSAPrivateKey with the right passphrase on a bundle whose key is    *)
(* EC, both return an error and no signer, and neither panics.             *)
C2_AlgorithmMismatch ==
    \A op \in {"LoadECDSAPrivateKey", "LoadRSAPrivateKey"} :
        (/\ LoadedStored(op)
         /\ last.pass = stored.keys.password
         /\ SealedKey(stored.keys).alg =
                (IF op = "LoadECDSAPrivateKey" THEN "RSA" ELSE "EC"))
        => /\ ~last.out.panicked
           /\ last.out.err # NilErr
           /\ last.out.sv = NoSigner

(* C3: unsupported algorithm.  When LoadPrivateKey is given a file under   *)
(* the cosign tag that decrypts and parses as PKCS#8 to a key that is      *)
(* neither RSA nor EC, it returns a non-nil error and no signer.           *)
C3_UnsupportedAlgorithm ==
    LET p == pemDecode(last.key)
        x == Decrypt(p.Bytes, last.pass)
        pk == ParsePKCS8PrivateKey(x.plain)
    IN
    (/\ last.op = "LoadPrivateKey"
     /\ p.ok /\ p.Type = PrivateKeyPemType
     /\ x.err = NilErr /\ pk.err = NilErr
     /\ pk.key.alg \notin {"RSA", "EC"})
    => /\ last.out.err # NilErr
       /\ last.out.sv = NoSigner

(* C4: wrong passphrase.  Each of the three Loader entry points, called on *)
(* a private-key file the Encoder produced under passphrase p with a       *)
(* passphrase other than p, returns a decryption error and no signer, and  *)
(* reaches neither the parse nor the dispatch stage.                       *)
C4_WrongPassphrase ==
    \A op \in Loaders :
        (LoadedStored(op) /\ last.pass # stored.keys.password)
        => /\ last.out.err # NilErr
           /\ Head(last.out.err) = "decrypt"
           /\ last.out.sv = NoSigner
           /\ ~last.out.panicked
           /\ ~Called(last.out, "x509.ParsePKCS8PrivateKey")
           /\ last.out.stages = <<"RawBytes", "FramingValidated">>

C4_Witness ==
    /\ LoadedStored("LoadECDSAPrivateKey")
    /\ last.pass # stored.keys.password
    /\ SealedKey(stored.keys).alg = "EC"
    /\ Head(last.out.err) = "decrypt"

(* C5: format rejection by the Loader.  Each of the three Loader entry     *)
(* points, given a PEM block under any tag other than the cosign tag,      *)
(* returns the unsupported-pem-type error naming that tag, for every       *)
(* passphrase, without calling decryption or key parsing; given bytes with *)
(* no PEM block it returns the invalid-pem-block error.                    *)
C5_FormatRejection ==
    LET p == pemDecode(last.key) IN
    last.op \in Loaders =>
        /\ (p.ok /\ p.Type # PrivateKeyPemType) =>
              /\ last.out.err = <<"unsupported pem type", p.Type>>
              /\ last.out.sv = NoSigner
              /\ ~last.out.panicked
              /\ last.out.calls = <<"pem.Decode">>
        /\ ~p.ok =>
              /\ last.out.err = <<"invalid pem block">>
              /\ last.out.sv = NoSigner
              /\ ~last.out.panicked
              /\ last.out.calls = <<"pem.Decode">>

C5_Witness ==
    /\ last.op = "LoadRSAPrivateKey"
    /\ last.key.framed
    /\ last.key.type = RSAPrivateKeyPemType
    /\ last.key.body.der.fmt = "PKCS1"
    /\ last.out.err = <<"unsupported pem type", RSAPrivateKeyPemType>>

(* C6: public key pairing.  In every bundle returned by GenerateKeyPair or *)
(* ImportKeyPair, the key encoded in PublicBytes is the public key of the  *)
(* private key sealed in PrivateBytes of the same bundle; this holds both  *)
(* for the bundle just returned and for the one in storage.                *)
Paired(keys) ==
    LET x == Decrypt(pemDecode(keys.PrivateBytes).Bytes, keys.password)
        priv == ParsePKCS8PrivateKey(x.plain)
        pub == UnmarshalPEMToPublicKey(keys.PublicBytes)
    IN /\ x.err = NilErr /\ priv.err = NilErr /\ pub.err = NilErr
       /\ pub.key = PublicOf(priv.key)

C6_PublicKeyPairing ==
    /\ (last.op \in {"GenerateKeyPair", "ImportKeyPair"} /\ last.out.keys # NoKeys)
          => Paired(last.out.keys)
    /\ stored.via \in {"GenerateKeyPair", "ImportKeyPair"} => Paired(stored.keys)

C6_Witness ==
    /\ last.op = "GenerateKeyPair"
    /\ last.out.keys # NoKeys
    /\ SealedKey(last.out.keys) = PrivKey("EC", NumKeys)
    /\ stored.keys = last.out.keys

(* C7: passphrase callback invocation by the Importer.  As claimed: every  *)
(* call of ImportKeyPair, also one that ends in a format, unsupported-     *)
(* format or parse error, invokes the callback exactly once, with true.    *)
C7_CallbackExactlyOnce ==
    last.op = "ImportKeyPair" => last.out.pfCalls = <<TRUE>>

\* the file was read and holds a key the Importer accepts
Importable(file) ==
    /\ file.err = NilErr
    /\ file.kb.framed
    /\ ~file.kb.body.boxed
    /\ \/ file.kb.type = RSAPrivateKeyPemType /\ file.kb.body.der.fmt = "PKCS1"
       \/ file.kb.type = ECPrivateKeyPemType /\ file.kb.body.der.fmt = "SEC1"

(* C7 as amended: every call of ImportKeyPair invokes the callback at most *)
(* once and only with true; exactly once when the file was read and holds  *)
(* a well-formed key under one of the two supported tags, and not at all   *)
(* when the call ends in a read, format, unsupported-format or parse       *)
(* error.  The call leaves the stored bundle alone unless it returns one.  *)
C7_CallbackOnceIfEncoderReached ==
    last.op = "ImportKeyPair" =>
        /\ last.out.pfCalls \in {<< >>, <<TRUE>>}
        /\ last.out.pfCalls = <<TRUE>> <=> Importable(last.file)
        /\ ~Importable(last.file) => last.out.err # NilErr /\ last.out.keys = NoKeys

C7_Witness ==
    /\ last.op = "ImportKeyPair"
    /\ Importable(last.file)
    /\ last.out.pfCalls = <<TRUE>>
    /\ last.out.keys # NoKeys

(* C8: passphrase callback failure.  When the callback returns an error    *)
(* during MarshallKeyPair, GenerateKeyPair or ImportKeyPair, the call      *)
(* returns that same error and no bundle, encrypts nothing and has invoked *)
(* the callback once only.                                                 *)
C8_CallbackFailure ==
    (/\ last.op \in {"MarshallKeyPair", "GenerateKeyPair", "ImportKeyPair"}
     /\ last.out.pfCalls # << >>
     /\ last.pf.err # NilErr)
    => /\ last.out.err = last.pf.err
       /\ last.out.keys = NoKeys
       /\ ~Called(last.out, "encrypted.Encrypt")
       /\ Len(last.out.pfCalls) = 1

C8_Witness ==
    /\ last.op = "ImportKeyPair"
    /\ last.pf.err # NilErr
    /\ last.out.pfCalls = <<TRUE>>
    /\ last.out.err = <<"user cancelled">>

\* s is an initial part of t
IsPrefix(s, t) == Len(s) <= Len(t) /\ \A i \in 1..Len(s) : s[i] = t[i]

(* C9: Loader state machine.  Every call of LoadPrivateKey completes the   *)
(* stages RawBytes, FramingValidated, Decrypted, Parsed,                   *)
(* AlgorithmResolved, SignerReady in this order, each once; a call that    *)
(* stops before SignerReady returns an error and no signer, and a call     *)
(* that reaches SignerReady returns a signer and no error.                 *)
C9_LoaderStages ==
    last.op = "LoadPrivateKey" =>
        /\ IsPrefix(last.out.stages, StageOrder)
        /\ ~last.out.panicked
        /\ last.out.stages # StageOrder =>
              last.out.err # NilErr /\ last.out.sv = NoSigner
        /\ last.out.stages = StageOrder =>
              last.out.err = NilErr /\ last.out.sv # NoSigner

(* C10: Importer rejection order.  ImportKeyPair checks PEM framing, then  *)
(* the type tag, then the key body: no PEM block gives the invalid-pem-    *)
(* block error; a tag other than the two legacy tags gives the             *)
(* unsupported-pem-type error naming the tag, whatever the body holds; a   *)
(* supported tag over a malformed body gives the parsing error.  In all    *)
(* three cases no bundle is returned and the Encoder is not reached.  The  *)
(* body is parsed with the RSA parser exactly when the tag is the RSA tag, *)
(* and with the EC parser exactly when it is the EC tag.                   *)
C10_ImporterRejectionOrder ==
    LET kb == last.file.kb
        supported == kb.type \in {RSAPrivateKeyPemType, ECPrivateKeyPemType}
        rejected == /\ last.out.keys = NoKeys
                    /\ last.out.pfCalls = << >>
                    /\ ~Called(last.out, "x509.MarshalPKCS8PrivateKey")
                    /\ ~Called(last.out, "encrypted.Encrypt")
    IN
    (last.op = "ImportKeyPair" /\ last.file.err = NilErr) =>
        /\ ~kb.framed => last.out.err = <<"invalid pem block">> /\ rejected
        /\ (kb.framed /\ ~supported) =>
              last.out.err = <<"unsupported pem type", kb.type>> /\ rejected
        /\ (kb.framed /\ supported /\ ~Importable(last.file)) =>
              last.out.err = <<"parsing error">> /\ rejected
        /\ Called(last.out, "x509.ParsePKCS1PrivateKey")
              <=> (kb.framed /\ kb.type = RSAPrivateKeyPemType)
        /\ Called(last.out, "x509.ParseECPrivateKey")
              <=> (kb.framed /\ kb.type = ECPrivateKeyPemType)

C10_Witness ==
    /\ last.op = "ImportKeyPair"
    /\ last.file.err = NilErr
    /\ last.file.kb.type = RSAPrivateKeyPemType
    /\ last.file.kb.body.der.fmt = "SEC1"
    /\ last.out.err = <<"parsing error">>
    /\ last.out.calls = <<"os.ReadFile", "pem.Decode", "x509.ParsePKCS1PrivateKey">>

====
